---- MODULE Spec2Model ----
(***************************************************************************)
(* A model of weaver: the role generation contract of roles/base.py        *)
(* (BaseRole.generate, get_memory, clear_memory, _clean_text_from_pipeline),*)
(* the orchestration loop of weave.py (main) and the checkpoint store of   *)
(* utils.py (from_checkpoint, write_story_to_file).                        *)
(*                                                                         *)
(* A text is a sequence of symbols.  A symbol is a one-character string,   *)
(* or an opaque word (a run of characters that holds no white space and    *)
(* no angle bracket).  Python's None is <<>> and a present value v is      *)
(* <<v>> (an optional value is a sequence of length 0 or 1).               *)
(***************************************************************************)
EXTENDS Integers, Sequences, FiniteSets, TLC

VARIABLES
    roles,      \* role name -> the BaseRole object's fields
    heap,       \* list object id -> the list's entries (Python lists are shared by reference)
    snapshot,   \* the list object a caller holds from its last get_memory
    last,       \* the last call made on a role from outside main, with its outcome
    pool,       \* the completion contents the backend of this process may answer
    memCap,     \* how long a memory log the exploration lets grow
    fuel,       \* how many more calls the exploration makes on a role, -1: no limit
    expect,     \* role name -> the log its generate and clear_memory calls account for
    pc,         \* main's position
    args,       \* main's arguments
    i,          \* main's loop counter
    init_prompt,
    prompt,
    sim_out,
    action,
    memory_dict,
    story,
    err,        \* the exception that ended the run, "none" while there is none
    calls,      \* the role calls of the current run, in order
    fs,         \* the stories/ tree: path -> entry
    now,        \* the wall clock, in ticks
    runs,       \* how many runs of main have been started
    wrote,      \* every write_story_to_file so far: its path and its text
    fs0,        \* the stories/ tree when the current run started
    budget,     \* what the exploration spends: iterations per run, runs, ticks of start-up
    logged      \* run by run, role name -> the logs/<timestamp> directory its log file is in

vars == << roles, heap, snapshot, last, pool, memCap, fuel, expect, pc, args, i, init_prompt,
           prompt, sim_out, action, memory_dict, story, err, calls, fs, now,
           runs, wrote, fs0, budget, logged >>

mainVars == << pc, args, i, init_prompt, prompt, sim_out, action, memory_dict,
               story, err, calls, fs, now, runs, wrote, fs0, budget, logged >>

-----------------------------------------------------------------------------
(* Bounds of the exploration.                                              *)

MaxTokens == 3      \* a backend answer is made of at most this many pieces
MaxMem == 2         \* a memory log driven from outside main grows to this length
MaxIter == 2        \* max_iterations ranges over 0..MaxIter
MaxRuns == 3        \* runs of main over one stories/ tree
MaxTime == 2        \* the clock stops ticking here

-----------------------------------------------------------------------------
(* Optional values and Python truthiness.                                  *)

None == << >>
Some(v) == << v >>
Get(x) == x[1]
\* `if x:` for an optional text: None and the empty string are falsy
Truthy(x) == x # None /\ Len(x[1]) > 0

-----------------------------------------------------------------------------
(* Texts.                                                                  *)

OpenTag == << "<", "t", "h", "i", "n", "k", ">" >>
CloseTag == << "<", "/", "t", "h", "i", "n", "k", ">" >>
Whitespace == { " ", "\n", "\r", "\t" }

\* the pieces the explored backend answers are made of
Pieces == { OpenTag, CloseTag, << "a" >>, << " " >>, << "\n" >> }

RECURSIVE TextsOfLen(_)
TextsOfLen(n) ==
    IF n = 0 THEN { << >> }
    ELSE { p \o t : p \in Pieces, t \in TextsOfLen(n - 1) }

AllTexts == UNION { TextsOfLen(n) : n \in 0..MaxTokens }

\* "<think>internal notes</think>Final answer."
ThinkExample ==
    OpenTag \o << "i","n","t","e","r","n","a","l"," ","n","o","t","e","s" >>
            \o CloseTag
            \o << "F","i","n","a","l"," ","a","n","s","w","e","r","." >>
FinalAnswer == << "F","i","n","a","l"," ","a","n","s","w","e","r","." >>

\* does pat occur in s at position k
MatchAt(s, k, pat) ==
    /\ k >= 1
    /\ k + Len(pat) - 1 <= Len(s)
    /\ \A j \in 1..Len(pat) : s[k + j - 1] = pat[j]

\* the positions >= k at which pat occurs in s
Occurrences(s, k, pat) == { j \in k..Len(s) : MatchAt(s, j, pat) }

Min(S) == CHOOSE x \in S : \A y \in S : x <= y
Max(S) == CHOOSE x \in S : \A y \in S : x >= y

-----------------------------------------------------------------------------
(* roles/base.py: BaseRole.                                                *)

RoleNames == { "narrator", "worldsim", "character", "editor" }
LLMs == { "m" }

\* the contents of system_prompts/<role>.txt
SystemPromptFile(role) == << "system-prompt-of", " ", role >>

MemoryId(role) == << "memory", role >>
CopyId(role) == << "copy", role >>
ListIds == { MemoryId(r) : r \in RoleNames } \cup { CopyId(r) : r \in RoleNames }

\* BaseRole.__init__: the fields generate and the memory accessors use
BaseRole(role, llm, local) ==
    [ role |-> role, model |-> llm, local |-> local,
      system_prompt |-> SystemPromptFile(role),
      memory |-> MemoryId(role) ]

\* re.sub(r"<think>.*?</think>", "", s, flags=re.DOTALL) tries the pattern at
\* position k: 0 when it does not match there, else the position of the
\* match's last character.  "<think>" must stand at k; .*? is lazy, so the
\* match ends with the first "</think>" after it; with DOTALL the dot also
\* matches a line break.
ThinkSpanEnd_greedy(s, k) ==
    IF MatchAt(s, k, OpenTag) /\ Occurrences(s, k + Len(OpenTag), CloseTag) # {}
    THEN Max(Occurrences(s, k + Len(OpenTag), CloseTag)) + Len(CloseTag) - 1
    ELSE 0

ThinkSpanEnd(s, k) ==
    IF MatchAt(s, k, OpenTag) /\ Occurrences(s, k + Len(OpenTag), CloseTag) # {}
    THEN Min(Occurrences(s, k + Len(OpenTag), CloseTag)) + Len(CloseTag) - 1
    ELSE 0

\* re.sub: scan from the left, drop each match, go on after it
RECURSIVE ReSubFrom(_, _)
ReSubFrom(s, k) ==
    IF k > Len(s) THEN << >>
    ELSE LET e == ThinkSpanEnd(s, k)
         IN  IF e # 0 THEN ReSubFrom(s, e + 1)
             ELSE << s[k] >> \o ReSubFrom(s, k + 1)

ReSubThink(s) == ReSubFrom(s, 1)

\* str.strip()
Strip(s) ==
    LET keep == { k \in 1..Len(s) : s[k] \notin Whitespace }
    IN  IF keep = {} THEN << >> ELSE SubSeq(s, Min(keep), Max(keep))

\* BaseRole._clean_text_from_pipeline, on the content of the pipeline's last message
clean_text_from_pipeline(thinking_out) == Strip(ReSubThink(thinking_out))

\* generate, lines 89-95: the system message of the call
SystemMessage_given(self, system_prompt) ==
    IF system_prompt # None THEN Get(system_prompt) ELSE self.system_prompt

SystemMessage(self, system_prompt) ==
    IF Truthy(system_prompt) THEN Get(system_prompt) ELSE self.system_prompt

\* generate, lines 97-104: generated_text from the backend's completion content.
\* [raised, text]: re.sub raises TypeError on a content that is no string.
GeneratedText(self, content) ==
    IF self.local
    THEN IF content = None
         THEN [ raised |-> "TypeError", text |-> None ]
         ELSE [ raised |-> "none", text |-> Some(clean_text_from_pipeline(Get(content))) ]
    ELSE [ raised |-> "none", text |-> content ]

\* generate, lines 106-107: `if generated_text is None: raise ValueError(...)`
RaisesValueError_falsy(generated_text) == ~ Truthy(generated_text)

RaisesValueError(generated_text) == generated_text = None

GeneratedOutputPrefix ==
    << "G","e","n","e","r","a","t","e","d"," ","O","u","t","p","u","t",":"," " >>

\* generate, lines 111-116: the memory list after the call
MemoryAfter_unsaved(mem, save_to_memory, text) == mem
MemoryAfter_front(mem, save_to_memory, text) ==
    IF save_to_memory THEN << GeneratedOutputPrefix \o text >> \o mem ELSE mem

MemoryAfter(mem, save_to_memory, text) ==
    IF save_to_memory THEN Append(mem, GeneratedOutputPrefix \o text) ELSE mem

\* BaseRole.generate: [raised, ret, heap, system, user]
generate_savefirst(self, h, user_prompt, system_prompt, save_to_memory, completion) ==
    LET sys == SystemMessage(self, system_prompt)
        gen == GeneratedText(self, completion)
        failed == IF gen.raised # "none" THEN gen.raised
                  ELSE IF RaisesValueError(gen.text) THEN "ValueError"
                  ELSE "none"
        saved == [ h EXCEPT ![self.memory] =
                     MemoryAfter(@, save_to_memory,
                                 IF gen.text = None THEN << "None" >>
                                 ELSE Get(gen.text)) ]
    IN  [ raised |-> failed, ret |-> IF failed # "none" THEN None ELSE gen.text,
          heap |-> saved, system |-> sys, user |-> user_prompt ]

generate(self, h, user_prompt, system_prompt, save_to_memory, completion) ==
    LET sys == SystemMessage(self, system_prompt)
        gen == GeneratedText(self, completion)
        failed == IF gen.raised # "none" THEN gen.raised
                  ELSE IF RaisesValueError(gen.text) THEN "ValueError"
                  ELSE "none"
    IN  IF failed # "none"
        THEN [ raised |-> failed, ret |-> None, heap |-> h,
               system |-> sys, user |-> user_prompt ]
        ELSE [ raised |-> "none", ret |-> gen.text,
               heap |-> [ h EXCEPT ![self.memory] =
                            MemoryAfter(@, save_to_memory, Get(gen.text)) ],
               system |-> sys, user |-> user_prompt ]

\* BaseRole.get_memory: `return self.memory.copy()`: [ref, heap]
get_memory_alias(self, h) == [ ref |-> self.memory, heap |-> h ]

get_memory(self, h) ==
    [ ref |-> CopyId(self.role),
      heap |-> [ h EXCEPT ![CopyId(self.role)] = h[self.memory] ] ]

\* BaseRole.clear_memory: `self.memory = []` binds the field to a new list; a
\* holder of the old list keeps it (held is that holder's reference, if any).
\* [heap, held]
clear_memory_noop(self, h, held) == [ heap |-> h, held |-> held ]

clear_memory(self, h, held) ==
    IF held = Some(self.memory)
    THEN [ heap |-> [ h EXCEPT ![CopyId(self.role)] = h[self.memory],
                               ![self.memory] = << >> ],
           held |-> Some(CopyId(self.role)) ]
    ELSE [ heap |-> [ h EXCEPT ![self.memory] = << >> ], held |-> held ]

-----------------------------------------------------------------------------
(* A role driven call by call from outside main: any sequence of generate, *)
(* get_memory and clear_memory calls, and a caller that changes the list   *)
(* get_memory gave it.                                                     *)

TestRoles == { "narrator" }
UserPrompts == { << "p" >> }
Overrides == { None, Some(<< >>), Some(<< "o" >>) }
Junk == << "j" >>

\* the answers of a backend that may say anything of this short list
SampleResponses == { << "a" >>, ThinkExample }

\* the completion contents the backend can hand to generate
Completions == { None } \cup { Some(t) : t \in pool }

NoLast ==
    [ op |-> "init", role |-> "narrator", raised |-> "none", ret |-> None,
      system |-> None, sp |-> None, save |-> FALSE, completion |-> None,
      before |-> << >>, result |-> << >> ]

MainIdle ==
    /\ pc = "idle"
    /\ args = [ llm |-> "m", human_input |-> None, local |-> FALSE,
                max_iterations |-> 0, multichar |-> FALSE ]
    /\ i = 0
    /\ init_prompt = None
    /\ prompt = None
    /\ sim_out = None
    /\ action = None
    /\ memory_dict = << >>
    /\ story = None
    /\ err = "none"
    /\ calls = << >>
    /\ fs = << >>
    /\ now = 0
    /\ runs = 0
    /\ wrote = << >>
    /\ fs0 = << >>
    /\ logged = << >>

\* the four roles as instantiate_roles builds them, their memories empty
FreshRoles(llm, local) == [ r \in RoleNames |-> BaseRole(r, llm, local) ]
FreshHeap == [ id \in ListIds |-> << >> ]

Spend(f) == IF f > 0 THEN f - 1 ELSE f

RoleInit ==
    /\ \E local \in BOOLEAN : roles = FreshRoles("m", local)
    /\ heap = FreshHeap
    /\ snapshot = None
    /\ last = NoLast
    /\ expect = [ r \in RoleNames |-> << >> ]
    \* either a backend that may answer any of the samples, driven through
    \* any sequence of calls, or a backend with one fixed answer out of all
    \* the texts of up to MaxTokens pieces, driven through one call
    /\ \/ pool = SampleResponses /\ memCap = MaxMem /\ fuel = -1
       \/ pool \in { { t } : t \in AllTexts } /\ memCap = 1 /\ fuel = 1
    /\ MainIdle
    /\ budget = [ iters |-> 0, runs |-> 0, startup |-> 0 ]

ApiGenerate(r, user_prompt, system_prompt, save_to_memory, completion) ==
    /\ fuel # 0
    /\ Len(heap[roles[r].memory]) < memCap
    /\ \E g \in { generate(roles[r], heap, user_prompt, system_prompt,
                           save_to_memory, completion) } :
        /\ heap' = g.heap
        /\ last' = [ op |-> "generate", role |-> r, raised |-> g.raised,
                     ret |-> g.ret, system |-> Some(g.system),
                     sp |-> system_prompt, save |-> save_to_memory,
                     completion |-> completion,
                     before |-> heap[roles[r].memory],
                     result |-> g.heap[roles[r].memory] ]
        /\ expect' = [ expect EXCEPT ![r] =
                         IF g.raised = "none" /\ save_to_memory
                         THEN Append(@, GeneratedOutputPrefix \o Get(g.ret))
                         ELSE @ ]
        /\ fuel' = Spend(fuel)
        /\ UNCHANGED << roles, snapshot, pool, memCap >>
        /\ UNCHANGED mainVars

ApiGetMemory(r) ==
    /\ fuel # 0
    /\ \E m \in { get_memory(roles[r], heap) } :
        /\ heap' = m.heap
        /\ snapshot' = Some(m.ref)
        /\ last' = [ NoLast EXCEPT !.op = "get_memory", !.role = r,
                                   !.before = heap[roles[r].memory],
                                   !.result = m.heap[m.ref] ]
        /\ fuel' = Spend(fuel)
        /\ UNCHANGED << roles, pool, memCap, expect >>
        /\ UNCHANGED mainVars

ApiClearMemory(r) ==
    /\ fuel # 0
    /\ \E c \in { clear_memory(roles[r], heap, snapshot) } :
        /\ heap' = c.heap
        /\ snapshot' = c.held
        /\ last' = [ NoLast EXCEPT !.op = "clear_memory", !.role = r,
                                   !.before = heap[roles[r].memory],
                                   !.result = c.heap[roles[r].memory] ]
        /\ expect' = [ expect EXCEPT ![r] = << >> ]
        /\ fuel' = Spend(fuel)
        /\ UNCHANGED << roles, pool, memCap >>
        /\ UNCHANGED mainVars

\* the caller appends to, removes from or replaces an entry of the list it holds
MutateSnapshot(r, kind) ==
    LET held == Get(snapshot)
        lst == heap[held]
    IN  /\ snapshot # None
        /\ last.op \in { "get_memory", "mutate" }
        /\ last.role = r
        /\ \/ kind = "append" /\ Len(lst) <= memCap
              /\ heap' = [ heap EXCEPT ![held] = Append(lst, Junk) ]
           \/ kind = "remove" /\ Len(lst) > 0
              /\ heap' = [ heap EXCEPT ![held] = SubSeq(lst, 1, Len(lst) - 1) ]
           \/ kind = "replace" /\ Len(lst) > 0 /\ lst[1] # Junk
              /\ heap' = [ heap EXCEPT ![held] = [ lst EXCEPT ![1] = Junk ] ]
        /\ last' = [ NoLast EXCEPT !.op = "mutate", !.role = r,
                                   !.before = heap[roles[r].memory],
                                   !.result = heap'[roles[r].memory] ]
        /\ UNCHANGED << roles, snapshot, pool, memCap, fuel, expect >>
        /\ UNCHANGED mainVars

RoleNext ==
    \/ \E r \in TestRoles, u \in UserPrompts, sp \in Overrides,
          save \in BOOLEAN, c \in Completions :
          ApiGenerate(r, u, sp, save, c)
    \/ \E r \in TestRoles : ApiGetMemory(r)
    \/ \E r \in TestRoles : ApiClearMemory(r)
    \/ \E r \in TestRoles, kind \in { "append", "remove", "replace" } :
          MutateSnapshot(r, kind)

RoleSpec == RoleInit /\ [][RoleNext]_vars

-----------------------------------------------------------------------------
(* utils.py: the checkpoint store.  An entry of the stories/ tree is named  *)
(* by [llm, sub, name, ts]: sub is "" for stories/<llm>/ and "multichar"   *)
(* for stories/<llm>/multichar/; name is "story" for story_<ts>.txt and    *)
(* "multichar" for the directory stories/<llm>/multichar itself.           *)

\* strftime("%Y%m%d_%H%M%S") has whole seconds; a creation time is finer
TicksPerSecond == 2
Timestamp(t) == t \div TicksPerSecond

StoryPath(llm, multichar, ts) ==
    [ llm |-> llm, sub |-> IF multichar THEN "multichar" ELSE "",
      name |-> "story", ts |-> ts ]
MulticharDir(llm) == [ llm |-> llm, sub |-> "", name |-> "multichar", ts |-> 0 ]

\* open(filename, "w").write(story): text mode writes "\n" as os.linesep,
\* which is "\n" where the program runs (a POSIX system)
LineSep == << "\n" >>
RECURSIVE WriteText(_)
WriteText(t) ==
    IF t = << >> THEN << >>
    ELSE (IF Head(t) = "\n" THEN LineSep ELSE << Head(t) >>) \o WriteText(Tail(t))

\* open(file, "r").read(): text mode reads "\r\n" and a lone "\r" as "\n"
ReadText_raw(data) == data

RECURSIVE ReadFrom(_, _)
ReadFrom(data, k) ==
    IF k > Len(data) THEN << >>
    ELSE IF data[k] = "\r"
         THEN << "\n" >> \o ReadFrom(data, IF k < Len(data) /\ data[k + 1] = "\n"
                                          THEN k + 2 ELSE k + 1)
         ELSE << data[k] >> \o ReadFrom(data, k + 1)

ReadText(data) == ReadFrom(data, 1)

\* glob.glob("stories/<llm>/*") or glob.glob("stories/<llm>/multichar/*")
Glob(tree, llm, multichar) ==
    { f \in DOMAIN tree :
        f.llm = llm /\ f.sub = IF multichar THEN "multichar" ELSE "" }

\* max(files, key=os.path.getctime): where several files share the greatest
\* time, the first of them in glob's order, which is any of them
MostRecent(tree, files) ==
    { f \in files : \A g \in files : tree[f].ctime >= tree[g].ctime }

\* from_checkpoint: the outcomes it can have, [raised, text]
from_checkpoint(tree, llm, multichar) ==
    LET files == Glob(tree, llm, multichar)
    IN  IF files = {}
        THEN { [ raised |-> "FileNotFoundError", text |-> None ] }
        ELSE { IF tree[f].kind = "dir"
               THEN [ raised |-> "IsADirectoryError", text |-> None ]
               ELSE [ raised |-> "none", text |-> Some(ReadText(tree[f].content)) ] :
               f \in MostRecent(tree, files) }

\* os.makedirs(base_path, exist_ok=True): of the directories it makes, the
\* one a glob of from_checkpoint can list
makedirs(tree, llm, multichar, t) ==
    IF multichar /\ MulticharDir(llm) \notin DOMAIN tree
    THEN (MulticharDir(llm) :> [ kind |-> "dir", content |-> << >>, ctime |-> t ]) @@ tree
    ELSE tree

\* write_story_to_file: mode "w" makes the file or empties the one that is
\* there; a new name changes the directory that holds it
write_story_to_file(tree, f, text, t) ==
    LET file == [ kind |-> "file", content |-> WriteText(text), ctime |-> t ]
        parent == MulticharDir(f.llm)
        made == f \notin DOMAIN tree
    IN  [ g \in DOMAIN tree \cup { f } |->
            IF g = f THEN file
            ELSE IF made /\ f.sub = "multichar" /\ g = parent
                 THEN [ tree[g] EXCEPT !.ctime = t ]
                 ELSE tree[g] ]

-----------------------------------------------------------------------------
(* The four roles' methods: each one call of generate.  Their code is in   *)
(* roles/, outside the files at hand; they follow the specification: one   *)
(* generation call each, saved to memory but for the Editor's.             *)

\* str() of a value that may be None
Text(x) == IF x = None THEN << "None" >> ELSE Get(x)

edit_input_prompt(initial_text) ==
    << "edit_input", ":" >> \o initial_text
simulate_world_event_prompt(p) ==
    << "simulate_world_event", ":" >> \o p
edit_simulation_output_prompt(sim_text, prior_prompt) ==
    << "edit_simulation_output", ":" >> \o sim_text \o << "|" >> \o prior_prompt
decide_action_prompt(p, multichar) ==
    << "decide_action", IF multichar THEN "multichar" ELSE "single", ":" >> \o p
narrate_action_prompt(action_text, prior_prompt) ==
    << "narrate_action", ":" >> \o action_text \o << "|" >> \o prior_prompt

RECURSIVE JoinLines(_)
JoinLines(entries) ==
    IF entries = << >> THEN << >>
    ELSE Head(entries) \o << "\n" >> \o JoinLines(Tail(entries))

compile_story_prompt(bundle, h) ==
    << "compile_story", ":" >>
      \o << "narrator", "\n" >> \o JoinLines(h[bundle["narrator"]])
      \o << "worldsim", "\n" >> \o JoinLines(h[bundle["worldsim"]])
      \o << "character", "\n" >> \o JoinLines(h[bundle["character"]])

SavesToMemory(role, op) == op # "compile_story"

-----------------------------------------------------------------------------
(* weave.py: main, one step per blocking call.                             *)

Digits == << "0", "1", "2", "3", "4", "5", "6", "7", "8", "9" >>

\* What the backend answers is its own affair.  The exploration lets it
\* answer a role's call with null or with a word that names the call (so
\* that the way of every text through the loop shows), and the Editor's
\* call with null or any of the stories of this run.
CallWord(role, op, iter) == << role, "-", op, "-", Digits[iter + 1] >>
Stories(run) ==
    { << "story", Digits[run + 1] >>,
      << "story", Digits[run + 1], "\r", "\n", "two", "\r", "end" >> }
Answers(role, op, iter, run) ==
    { None } \cup
    IF role = "editor" THEN { Some(t) : t \in Stories(run) }
    ELSE { Some(CallWord(role, op, iter)) }

HumanInputs == { None, Some(<< >>), Some(<< "seed" >>) }

GenerationFailures == { "ValueError", "TypeError" }

\* main has no try/except: an exception ends the run where it is raised
Propagate_swallowed(raised, then) == then

Propagate(raised, then) == IF raised # "none" THEN "failed" ELSE then

\* `for i in range(max_iterations)`: the next position at the head of the loop
LoopHead_offbyone(k, max_iterations) ==
    IF k <= max_iterations THEN "worldsim" ELSE "finalize"

LoopHead_early(k, max_iterations) ==
    IF k < max_iterations /\ k < 1 THEN "worldsim" ELSE "finalize"

LoopHead(k, max_iterations) ==
    IF k < max_iterations THEN "worldsim" ELSE "finalize"

Call(role, op, user_prompt, g) ==
    [ role |-> role, op |-> op, user |-> user_prompt, raised |-> g.raised,
      ret |-> g.ret, system |-> g.system ]

\* one role method: its generation call
Gen(role, op, user_prompt, completion) ==
    generate(roles[role], heap, user_prompt, None, SavesToMemory(role, op),
             completion)

\* the call's record, and the exception if any
RoleCall(role, op, user_prompt, g, then) ==
    /\ heap' = g.heap
    /\ calls' = Append(calls, Call(role, op, user_prompt, g))
    /\ err' = g.raised
    /\ pc' = Propagate(g.raised, then)

\* `x = role.method(...)`: no assignment when the call raises
Assigned_stale(g, old) == old

Assigned(g, old) == IF g.raised = "none" THEN g.ret ELSE old

\* lines 106-110: memory_dict, from what the three get_memory calls returned
MemoryDict_swapped(narrator, worldsim, character) ==
    [ k \in { "narrator", "worldsim", "character" } |->
        CASE k = "narrator" -> narrator
          [] k = "worldsim" -> character
          [] OTHER -> worldsim ]

MemoryDict(narrator, worldsim, character) ==
    [ k \in { "narrator", "worldsim", "character" } |->
        CASE k = "narrator" -> narrator
          [] k = "worldsim" -> worldsim
          [] OTHER -> character ]

\* BaseRole.__init__, lines 45-48: the directory logs/<timestamp> of a role
\* constructed at time t.  A run is a new process, its loggers have no
\* handler yet, so that each role's log file is opened in that directory.
LogDir(t) == Timestamp(t)

\* instantiate_roles, lines 25-28: the roles are constructed in this order
ConstructionOrder ==
    [ r \in RoleNames |->
        CASE r = "narrator" -> 1
          [] r = "worldsim" -> 2
          [] r = "character" -> 3
          [] OTHER -> 4 ]

\* each constructor reads the clock itself: the times of the four reads,
\* the first not before t and the last not after latest
ConstructionTimes(t, latest) ==
    { ts \in [ 1..Cardinality(RoleNames) -> t..latest ] :
        \A j \in 1..(Cardinality(RoleNames) - 1) : ts[j] <= ts[j + 1] }

\* a new process: get_user_inputs, then main up to instantiate_roles
StartRun(llm, human_input, local, max_iterations, multichar) ==
    /\ pc \in { "idle", "done", "failed" }
    /\ runs < budget.runs
    /\ max_iterations <= budget.iters
    /\ runs' = runs + 1
    /\ args' = [ llm |-> llm, human_input |-> human_input, local |-> local,
                 max_iterations |-> max_iterations, multichar |-> multichar ]
    /\ roles' = FreshRoles(llm, local)
    /\ heap' = FreshHeap
    /\ pc' = "seed"
    /\ i' = 0
    /\ init_prompt' = None
    /\ prompt' = None
    /\ sim_out' = None
    /\ action' = None
    /\ memory_dict' = << >>
    /\ story' = None
    /\ err' = "none"
    /\ calls' = << >>
    /\ fs0' = fs
    /\ \E ts \in ConstructionTimes(now, Min({ MaxTime, now + budget.startup })) :
          /\ logged' = Append(logged, [ r \in RoleNames |-> LogDir(ts[ConstructionOrder[r]]) ])
          /\ now' = ts[Cardinality(RoleNames)]
    /\ UNCHANGED << snapshot, last, pool, memCap, fuel, expect, fs, wrote, budget >>

\* line 92: init_prompt = human_input if human_input else from_checkpoint(...)
Seed ==
    /\ pc = "seed"
    /\ IF Truthy(args.human_input)
       THEN /\ init_prompt' = args.human_input
            /\ pc' = "edit_input"
            /\ err' = "none"
       ELSE \E c \in from_checkpoint(fs, args.llm, args.multichar) :
            /\ init_prompt' = c.text
            /\ err' = c.raised
            /\ pc' = Propagate(c.raised, "edit_input")
    /\ UNCHANGED << roles, heap, snapshot, last, pool, memCap, fuel, expect,
                    args, i, prompt, sim_out, action, memory_dict, story,
                    calls, fs, now, runs, wrote, fs0, budget, logged >>

\* line 93: prompt = narrator.edit_input(init_prompt)
EditInput ==
    /\ pc = "edit_input"
    /\ \E c \in Answers("narrator", "edit_input", 0, runs) :
       \E g \in { Gen("narrator", "edit_input", edit_input_prompt(Text(init_prompt)), c) } :
          /\ RoleCall("narrator", "edit_input", edit_input_prompt(Text(init_prompt)), g, LoopHead(0, args.max_iterations))
          /\ prompt' = Assigned(g, prompt)
    /\ UNCHANGED << roles, snapshot, last, pool, memCap, fuel, expect, args, i,
                    init_prompt, sim_out, action, memory_dict, story, fs, now,
                    runs, wrote, fs0, budget, logged >>

\* line 97: sim_out = worldsim.simulate_world_event(prompt)
SimulateWorldEvent ==
    /\ pc = "worldsim"
    /\ \E c \in Answers("worldsim", "simulate_world_event", i, runs) :
       \E g \in { Gen("worldsim", "simulate_world_event", simulate_world_event_prompt(Text(prompt)), c) } :
          /\ RoleCall("worldsim", "simulate_world_event", simulate_world_event_prompt(Text(prompt)), g, "edit_sim")
          /\ sim_out' = Assigned(g, sim_out)
    /\ UNCHANGED << roles, snapshot, last, pool, memCap, fuel, expect, args, i,
                    init_prompt, prompt, action, memory_dict, story, fs, now,
                    runs, wrote, fs0, budget, logged >>

\* line 99: prompt = narrator.edit_simulation_output(sim_out, prompt)
EditSimulationOutput ==
    /\ pc = "edit_sim"
    /\ \E c \in Answers("narrator", "edit_simulation_output", i, runs) :
       \E g \in { Gen("narrator", "edit_simulation_output", edit_simulation_output_prompt(Text(sim_out), Text(prompt)), c) } :
          /\ RoleCall("narrator", "edit_simulation_output", edit_simulation_output_prompt(Text(sim_out), Text(prompt)), g, "character")
          /\ prompt' = Assigned(g, prompt)
    /\ UNCHANGED << roles, snapshot, last, pool, memCap, fuel, expect, args, i,
                    init_prompt, sim_out, action, memory_dict, story, fs, now,
                    runs, wrote, fs0, budget, logged >>

\* line 101: action = character.decide_action(prompt, multichar)
DecideAction ==
    /\ pc = "character"
    /\ \E c \in Answers("character", "decide_action", i, runs) :
       \E g \in { Gen("character", "decide_action", decide_action_prompt(Text(prompt), args.multichar), c) } :
          /\ RoleCall("character", "decide_action", decide_action_prompt(Text(prompt), args.multichar), g, "narrate")
          /\ action' = Assigned(g, action)
    /\ UNCHANGED << roles, snapshot, last, pool, memCap, fuel, expect, args, i,
                    init_prompt, prompt, sim_out, memory_dict, story, fs, now,
                    runs, wrote, fs0, budget, logged >>

\* line 103: prompt = narrator.narrate_action(action, prompt), and the loop's head
NarrateAction ==
    /\ pc = "narrate"
    /\ \E c \in Answers("narrator", "narrate_action", i, runs) :
       \E g \in { Gen("narrator", "narrate_action", narrate_action_prompt(Text(action), Text(prompt)), c) } :
          /\ RoleCall("narrator", "narrate_action", narrate_action_prompt(Text(action), Text(prompt)), g, LoopHead(i + 1, args.max_iterations))
          /\ prompt' = Assigned(g, prompt)
          /\ i' = IF g.raised = "none" THEN i + 1 ELSE i
    /\ UNCHANGED << roles, snapshot, last, pool, memCap, fuel, expect, args,
                    init_prompt, sim_out, action, memory_dict, story, fs, now,
                    runs, wrote, fs0, budget, logged >>

\* lines 105-111: the memory bundle and story = editor.compile_story(memory_dict)
Finalize ==
    /\ pc = "finalize"
    /\ \E m1 \in { get_memory(roles["narrator"], heap) } :
       \E m2 \in { get_memory(roles["worldsim"], m1.heap) } :
       \E m3 \in { get_memory(roles["character"], m2.heap) } :
       \E bundle \in { MemoryDict(m1.ref, m2.ref, m3.ref) } :
       \E c \in Answers("editor", "compile_story", i, runs) :
       \E g \in { generate(roles["editor"], m3.heap,
                           compile_story_prompt(bundle, m3.heap), None,
                           SavesToMemory("editor", "compile_story"), c) } :
          /\ memory_dict' = bundle
          /\ RoleCall("editor", "compile_story",
                      compile_story_prompt(bundle, m3.heap), g, "save")
          /\ story' = Assigned(g, story)
    /\ UNCHANGED << roles, snapshot, last, pool, memCap, fuel, expect, args, i,
                    init_prompt, prompt, sim_out, action, fs, now, runs, wrote,
                    fs0, budget, logged >>

\* lines 113-122: the story's path and write_story_to_file(story, story_fname)
Save ==
    /\ pc = "save"
    /\ \E f \in { StoryPath(args.llm, args.multichar, Timestamp(now)) } :
          /\ fs' = write_story_to_file(
                      makedirs(fs, args.llm, args.multichar, now), f,
                      Text(story), now)
          /\ wrote' = Append(wrote, [ run |-> runs, path |-> f,
                                      story |-> Text(story) ])
    /\ pc' = "done"
    /\ UNCHANGED << roles, heap, snapshot, last, pool, memCap, fuel, expect,
                    args, i, init_prompt, prompt, sim_out, action, memory_dict,
                    story, err, calls, now, runs, fs0, budget, logged >>

\* time passes between two runs.  Within a run the clock is read by the
\* four constructors (StartRun lets time pass between them) and at line
\* 118; the time a run's role calls take shows nowhere else, so that it
\* is left out.
Tick ==
    /\ pc \in { "idle", "done", "failed" }
    /\ runs < budget.runs
    /\ now < MaxTime
    /\ now' = now + 1
    /\ UNCHANGED << roles, heap, snapshot, last, pool, memCap, fuel, expect, pc,
                    args, i, init_prompt, prompt, sim_out, action, memory_dict,
                    story, err, calls, fs, runs, wrote, fs0, budget, logged >>

Init ==
    /\ roles = FreshRoles("m", FALSE)
    /\ heap = FreshHeap
    /\ snapshot = None
    /\ last = NoLast
    /\ expect = [ r \in RoleNames |-> << >> ]
    /\ pool = {}
    /\ memCap = 0
    /\ fuel = 0
    /\ MainIdle
    \* either one run of up to MaxIter iterations, whose start-up may take
    \* time, or MaxRuns runs of no iteration over one stories/ tree
    /\ \/ budget = [ iters |-> MaxIter, runs |-> 1, startup |-> MaxTime ]
       \/ budget = [ iters |-> 0, runs |-> MaxRuns, startup |-> 0 ]

Next ==
    \/ \E llm \in LLMs, h \in HumanInputs, local \in BOOLEAN,
          n \in 0..MaxIter, multichar \in BOOLEAN :
          StartRun(llm, h, local, n, multichar)
    \/ Seed
    \/ EditInput
    \/ SimulateWorldEvent
    \/ EditSimulationOutput
    \/ DecideAction
    \/ NarrateAction
    \/ Finalize
    \/ Save
    \/ Tick

Spec == Init /\ [][Next]_vars

\* main is one thread of synchronous calls: once started, a run takes its
\* next step as soon as the call it waits for has answered
RunStep ==
    \/ Seed
    \/ EditInput
    \/ SimulateWorldEvent
    \/ EditSimulationOutput
    \/ DecideAction
    \/ NarrateAction
    \/ Finalize
    \/ Save

FairSpec == Spec /\ WF_vars(RunStep)

-----------------------------------------------------------------------------
(* What "every <think>...</think> span removed, lazily, and trimmed" means, *)
(* said without the scan: the lazy span that starts at a is the one that   *)
(* ends with the first "</think>" after it; the removed spans are disjoint *)
(* and every other lazy span starts inside a removed one.                  *)

LazySpans(c) ==
    { << a, Min(Occurrences(c, a + Len(OpenTag), CloseTag)) + Len(CloseTag) - 1 >> :
        a \in { k \in 1..Len(c) :
                  /\ MatchAt(c, k, OpenTag)
                  /\ Occurrences(c, k + Len(OpenTag), CloseTag) # {} } }

Disjoint(R) == \A r1 \in R, r2 \in R : r1 = r2 \/ r1[2] < r2[1] \/ r2[2] < r1[1]
Covered(c, R) == { q \in 1..Len(c) : \E r \in R : r[1] <= q /\ q <= r[2] }
KeepSeq(c, K) ==
    [ j \in 1..Cardinality(K) |->
        c[CHOOSE q \in K : Cardinality({ x \in K : x < q }) = j - 1] ]
Trimmed(t) == t = << >> \/ (t[1] \notin Whitespace /\ t[Len(t)] \notin Whitespace)
TrimOf(u, t) ==
    /\ Trimmed(t)
    /\ \E a \in 1..(Len(u) + 1) : \E b \in (a - 1)..Len(u) :
          /\ t = SubSeq(u, a, b)
          /\ \A q \in 1..(a - 1) : u[q] \in Whitespace
          /\ \A q \in (b + 1)..Len(u) : u[q] \in Whitespace
ThinkFree(c, t) ==
    \E R \in SUBSET LazySpans(c) :
        /\ Disjoint(R)
        /\ \A m \in LazySpans(c) \ R : \E r \in R : r[1] < m[1] /\ m[1] <= r[2]
        /\ TrimOf(KeepSeq(c, (1..Len(c)) \ Covered(c, R)), t)

LastGenerateReturned == last.op = "generate" /\ last.raised = "none"
LastLocal == roles[last.role].local

\* C4 as stated: generate fails whenever the completion content is null or
\* is empty.
C4_FailsOnNullOrEmpty ==
    (last.op = "generate" /\ last.completion \in { None, Some(<< >>) })
        => last.raised # "none"

\* C4, amended: generate fails exactly when the completion content is null
\* (ValueError on the remote backend, the cleaning step's TypeError on the
\* local one); an empty content is returned normally, as the empty string.
C4_FailsExactlyOnNull ==
    last.op = "generate" =>
        /\ last.raised # "none" <=> last.completion = None
        /\ last.completion = None =>
              last.raised = IF LastLocal THEN "TypeError" ELSE "ValueError"
        /\ last.completion = Some(<< >>) => last.ret = Some(<< >>)

C4_Witness ==
    /\ last.op = "generate"
    /\ ~ LastLocal
    /\ last.completion = None
    /\ last.raised = "ValueError"

\* the memory effect of a generate call that returned
StoredAsReturned ==
    last.result = IF last.save
                  THEN Append(last.before, GeneratedOutputPrefix \o Get(last.ret))
                  ELSE last.before

\* C5 as stated: on either backend the text returned and stored has every
\* think span removed and is trimmed; the example yields "Final answer.".
C5_CleanedOnBothBackends ==
    LastGenerateReturned =>
        /\ ThinkFree(Get(last.completion), Get(last.ret))
        /\ last.completion = Some(ThinkExample) => last.ret = Some(FinalAnswer)
        /\ StoredAsReturned

\* C5, amended: on the local backend the text returned and stored has every
\* think span removed (lazily, across line breaks) and is trimmed, and the
\* example yields "Final answer."; on the remote backend the completion
\* content is returned and stored as it came.
C5_CleanedOnLocalOnly ==
    LastGenerateReturned =>
        /\ LastLocal => ThinkFree(Get(last.completion), Get(last.ret))
        /\ (LastLocal /\ last.completion = Some(ThinkExample))
              => last.ret = Some(FinalAnswer)
        /\ ~ LastLocal => last.ret = last.completion
        /\ StoredAsReturned

C5_Witness ==
    /\ LastGenerateReturned
    /\ LastLocal
    /\ last.save
    /\ last.completion = Some(ThinkExample)
    /\ last.result = << GeneratedOutputPrefix \o FinalAnswer >>

\* C6: changing the list get_memory returned leaves the role's log as it
\* was, and get_memory returns the log that the generate and clear_memory
\* calls alone account for.
C6_SnapshotIsACopy ==
    /\ last.op = "mutate" =>
          /\ last.result = last.before
          /\ heap[roles[last.role].memory] = expect[last.role]
    /\ last.op = "get_memory" => last.result = expect[last.role]

C6_Witness ==
    /\ last.op = "mutate"
    /\ Len(last.before) > 0
    /\ heap[Get(snapshot)] # last.before

-----------------------------------------------------------------------------
(* Claims about main and the checkpoint store.                             *)

N == args.max_iterations
Memory(r) == heap[roles[r].memory]
RunEnded == pc \in { "save", "done" }

\* the k-th role call of a run of n iterations
ExpectedCall(k, n) ==
    IF k = 1 THEN << "narrator", "edit_input" >>
    ELSE IF k = 4 * n + 2 THEN << "editor", "compile_story" >>
    ELSE CASE (k - 2) % 4 = 0 -> << "worldsim", "simulate_world_event" >>
           [] (k - 2) % 4 = 1 -> << "narrator", "edit_simulation_output" >>
           [] (k - 2) % 4 = 2 -> << "character", "decide_action" >>
           [] OTHER -> << "narrator", "narrate_action" >>

\* C1: the role calls of a run come in the fixed order (edit_input, then
\* the four calls of each iteration, then compile_story), and a run in
\* which no call fails has made exactly 4N+2 of them when it ends.
C1_CallSequence ==
    /\ Len(calls) <= 4 * N + 2
    /\ \A k \in 1..Len(calls) :
          << calls[k].role, calls[k].op >> = ExpectedCall(k, N)
    /\ RunEnded =>
          /\ Len(calls) = 4 * N + 2
          /\ \A k \in 1..Len(calls) : calls[k].raised = "none"

C1_Witness == pc = "done" /\ N = 2 /\ Len(calls) = 10

\* C2: when a run in which no call failed ends, the Narrator's log has
\* 2N+1 entries and the WorldSim's and the Character's N each.
C2_MemoryLengths ==
    RunEnded =>
        /\ Len(Memory("narrator")) = 2 * N + 1
        /\ Len(Memory("worldsim")) = N
        /\ Len(Memory("character")) = N

C2_Witness ==
    /\ pc = "done"
    /\ N = 2
    /\ Len(Memory("narrator")) = 5
    /\ Len(Memory("worldsim")) = 2

WroteInThisRun == \E k \in 1..Len(wrote) : wrote[k].run = runs

\* C3: a generation failure on any call ends the run there: the failing
\* call is the last one made, no story is written by the run, and nothing
\* more happens in it.
C3_AbortsOnFailure ==
    /\ [](err \in GenerationFailures =>
            /\ pc = "failed"
            /\ Len(calls) >= 1
            /\ calls[Len(calls)].raised = err
            /\ \A k \in 1..(Len(calls) - 1) : calls[k].raised = "none"
            /\ fs = fs0
            /\ ~ WroteInThisRun)
    /\ [][ (pc = "failed" /\ err \in GenerationFailures) =>
             \/ calls' = calls /\ fs' = fs /\ wrote' = wrote /\ pc' = pc
             \/ runs' = runs + 1 ]_vars

C3_Witness ==
    /\ pc = "failed"
    /\ err = "ValueError"
    /\ N = 2
    /\ Len(calls) = 4
    /\ fs = fs0

\* the story files of a (model identifier, multichar) pair
StoryFiles(tree, llm, multichar) ==
    { f \in DOMAIN tree :
        /\ f.llm = llm
        /\ f.sub = (IF multichar THEN "multichar" ELSE "")
        /\ f.name = "story" }
DistinctTimes(tree, S) ==
    \A f \in S, g \in S : f # g => tree[f].ctime # tree[g].ctime
Latest(tree, S) == CHOOSE f \in S : \A g \in S : tree[f].ctime >= tree[g].ctime

\* the run has called from_checkpoint / was asked to start from a checkpoint
Loaded == runs > 0 /\ pc \notin { "idle", "seed" } /\ ~ Truthy(args.human_input)
CheckpointRequested == runs > 0 /\ pc \notin { "idle", "seed" } /\ args.human_input = None
PairFiles == StoryFiles(fs0, args.llm, args.multichar)

\* C8: from_checkpoint returns the content of the pair's story file with
\* the greatest creation time, and fails with FileNotFoundError when the
\* pair has no story file.
C8_MostRecentStory ==
    Loaded =>
        /\ PairFiles = {} => (pc = "failed" /\ err = "FileNotFoundError")
        /\ (PairFiles # {} /\ DistinctTimes(fs0, PairFiles)) =>
              init_prompt = Some(ReadText(fs0[Latest(fs0, PairFiles)].content))

\* C9: with a checkpoint requested and no story of the pair, the run fails
\* with FileNotFoundError before any role call and writes no story.
C9_NoCheckpointFound ==
    (CheckpointRequested /\ PairFiles = {}) =>
        /\ pc = "failed"
        /\ err = "FileNotFoundError"
        /\ calls = << >>
        /\ \A r \in RoleNames : Memory(r) = << >>
        /\ fs = fs0
        /\ ~ WroteInThisRun

\* a text with every "\r\n" and every lone "\r" turned into "\n"
UniversalNewlines(t) ==
    LET K == { k \in 1..Len(t) : ~ (t[k] = "\n" /\ k > 1 /\ t[k - 1] = "\r") }
        kept == KeepSeq(t, K)
    IN  [ j \in 1..Len(kept) |-> IF kept[j] = "\r" THEN "\n" ELSE kept[j] ]
HasCR(t) == \E k \in 1..Len(t) : t[k] = "\r"

\* the writes of earlier runs that are the last to their file
EarlierWrites ==
    { k \in 1..Len(wrote) :
        /\ wrote[k].run < runs
        /\ \A j \in (k + 1)..Len(wrote) :
              wrote[j].run < runs => wrote[j].path # wrote[k].path }
\* those whose file is the pair's most recent story
MostRecentWrites ==
    { k \in EarlierWrites :
        /\ wrote[k].path \in PairFiles
        /\ \A g \in PairFiles : fs0[wrote[k].path].ctime >= fs0[g].ctime }

\* C10 as stated: the story read back from its file, right after the write
\* or by from_checkpoint in a later run, is the Editor's text.
C10_RoundTrip ==
    /\ pc = "done" =>
          ReadText(fs[wrote[Len(wrote)].path].content) = Get(story)
    /\ (Loaded /\ init_prompt # None) =>
          \E k \in MostRecentWrites : init_prompt = Some(wrote[k].story)

\* C10, amended: the story read back is the Editor's text with every
\* "\r\n" and every lone "\r" read as "\n"; it is the Editor's text itself
\* when that holds no carriage return.
C10_RoundTripUpToNewlines ==
    /\ pc = "done" =>
          LET back == ReadText(fs[wrote[Len(wrote)].path].content)
          IN  /\ back = UniversalNewlines(Get(story))
              /\ ~ HasCR(Get(story)) => back = Get(story)
    /\ (Loaded /\ init_prompt # None) =>
          \E k \in MostRecentWrites :
              /\ init_prompt = Some(UniversalNewlines(wrote[k].story))
              /\ ~ HasCR(wrote[k].story) => init_prompt = Some(wrote[k].story)

C10_Witness ==
    /\ Loaded
    /\ init_prompt # None
    /\ \E k \in MostRecentWrites :
          /\ HasCR(wrote[k].story)
          /\ init_prompt = Some(UniversalNewlines(wrote[k].story))
          /\ init_prompt # Some(wrote[k].story)

-----------------------------------------------------------------------------
(* Claims about the story writer, the seed and the run as a whole.         *)

\* the story files of the current run's (model identifier, multichar) pair
PairStories(tree) == StoryFiles(tree, args.llm, args.multichar)
WritesOfThisRun == { k \in 1..Len(wrote) : wrote[k].run = runs }

\* C11: a run writes its story exactly once, when it ends; the run's pair
\* then has one more story file than when the run started, and every story
\* file that was there keeps its content.
C11_NeverOverwrites ==
    /\ (runs > 0 /\ pc # "done") => WritesOfThisRun = {}
    /\ pc = "done" =>
          /\ Cardinality(WritesOfThisRun) = 1
          /\ Cardinality(PairStories(fs)) = Cardinality(PairFiles) + 1
          /\ \A f \in DOMAIN fs0 :
                fs0[f].kind = "file" => fs[f].content = fs0[f].content

Seeded == runs > 0 /\ pc \notin { "idle", "seed" }
CheckpointErrors == { "FileNotFoundError", "IsADirectoryError" }

\* C13: when the user supplied an initial text (no checkpoint requested),
\* that text is the initial prompt and what edit_input is given, and the
\* checkpoint store has no part in the run: no failure of the load, no text
\* from a story file.
C13_HumanInputPrecedence ==
    (Seeded /\ args.human_input # None) =>
        /\ err \notin CheckpointErrors
        /\ init_prompt = args.human_input
        /\ Len(calls) >= 1 =>
              calls[1].user = edit_input_prompt(Get(args.human_input))

IsPrefix(a, b) == Len(a) <= Len(b) /\ SubSeq(b, 1, Len(a)) = a
\* a step of the current run that is one more role call
RoleCallMade == runs' = runs /\ Len(calls') = Len(calls) + 1

BundleKeys == { "narrator", "worldsim", "character" }
CompileCalls == { k \in 1..Len(calls) : calls[k].op = "compile_story" }

\* the entries the first k calls of the run produced for role r, in the
\* order of the calls
RECURSIVE Produced(_, _)
Produced(r, k) ==
    IF k = 0 THEN << >>
    ELSE IF calls[k].role = r /\ calls[k].raised = "none"
            /\ SavesToMemory(r, calls[k].op)
         THEN Append(Produced(r, k - 1), GeneratedOutputPrefix \o Get(calls[k].ret))
         ELSE Produced(r, k - 1)

\* C15: there is no bundle and no compile_story call before all N
\* iterations are done; the bundle has the keys narrator, worldsim and
\* character, each with all that role produced in the run, in order; the
\* one compile_story call of the run is the run's last call and is given
\* that bundle; for N = 2 the bundle holds 5, 2 and 2 entries.
C15_MemoryBundle ==
    /\ DOMAIN memory_dict = {} => CompileCalls = {}
    /\ DOMAIN memory_dict # {} =>
          /\ i = N
          /\ Len(calls) = 4 * N + 2
          /\ DOMAIN memory_dict = BundleKeys
          /\ \A k \in BundleKeys :
                /\ heap[memory_dict[k]] = Produced(k, Len(calls))
                /\ heap[memory_dict[k]] = Memory(k)
          /\ CompileCalls = { Len(calls) }
          /\ calls[Len(calls)].role = "editor"
          /\ calls[Len(calls)].user = compile_story_prompt(memory_dict, heap)
          /\ N = 2 =>
                /\ Len(heap[memory_dict["narrator"]]) = 5
                /\ Len(heap[memory_dict["worldsim"]]) = 2
                /\ Len(heap[memory_dict["character"]]) = 2

C15_Witness ==
    /\ pc = "done"
    /\ N = 2
    /\ DOMAIN memory_dict = BundleKeys
    /\ Len(heap[memory_dict["narrator"]]) = 5
    /\ Len(heap[memory_dict["worldsim"]]) = 2
    /\ Len(heap[memory_dict["character"]]) = 2
    /\ calls[10].user = compile_story_prompt(memory_dict, heap)

Ret(k) == Get(calls[k].ret)
NarratorReturns ==
    { k \in 1..Len(calls) : calls[k].role = "narrator" /\ calls[k].raised = "none" }

\* what the k-th call of a run is given, from what the calls before it returned
ExpectedUser(k) ==
    IF k = 1 THEN edit_input_prompt(Text(init_prompt))
    ELSE CASE (k - 2) % 4 = 0 -> simulate_world_event_prompt(Ret(k - 1))
           [] (k - 2) % 4 = 1 -> edit_simulation_output_prompt(Ret(k - 1), Ret(k - 2))
           [] (k - 2) % 4 = 2 -> decide_action_prompt(Ret(k - 1), args.multichar)
           [] OTHER -> narrate_action_prompt(Ret(k - 1), Ret(k - 2))

\* C16: WorldSim is given what the Narrator's call before it returned
\* (edit_input, or the narrate_action of the iteration before);
\* edit_simulation_output is given WorldSim's output and that same prompt;
\* decide_action is given what edit_simulation_output returned;
\* narrate_action is given the Character's action and what
\* edit_simulation_output returned; and the prompt state is at every moment
\* what the last Narrator call returned, never another role's output.
C16_PromptThreading ==
    /\ \A k \in 1..Len(calls) :
          calls[k].op # "compile_story" =>
             /\ calls[k].user = ExpectedUser(k)
             /\ (k >= 2 /\ (k - 2) % 4 \in { 0, 2 }) => calls[k - 1].role = "narrator"
             /\ (k >= 2 /\ (k - 2) % 4 \in { 1, 3 }) => calls[k - 2].role = "narrator"
    /\ prompt = IF NarratorReturns = {} THEN None
                ELSE calls[Max(NarratorReturns)].ret

C16_Witness ==
    /\ pc = "finalize"
    /\ N = 2
    /\ Len(calls) = 9
    /\ prompt = Some(CallWord("narrator", "narrate_action", 1))
    /\ calls[6].user =
          simulate_world_event_prompt(CallWord("narrator", "narrate_action", 0))
    /\ calls[7].user =
          edit_simulation_output_prompt(
             CallWord("worldsim", "simulate_world_event", 1),
             CallWord("narrator", "narrate_action", 0))

\* C17: when the pair of the run has stories, the load does not fail and
\* takes one of the pair's own most recent stories, whatever there is for
\* the model's other mode.
C17_ModeIsolation ==
    (Loaded /\ PairFiles # {}) =>
        /\ err \notin CheckpointErrors
        /\ \E f \in MostRecent(fs0, PairFiles) :
              init_prompt = Some(ReadText(fs0[f].content))

Iterations == { k \in 1..Len(calls) : calls[k].op = "narrate_action" }

\* C18: a run never goes on for ever: again and again the program is where
\* no run is under way, the last one done or ended by an exception (of a
\* call or of the load of the checkpoint); a run ends short of DONE only
\* through such an exception; a run that is done has made exactly N
\* iterations, whatever the roles answered, and has written its story
\* once; and once it is done it makes no role call any more.
C18_RunsToDone ==
    /\ []<>(pc = "idle" \/ pc = "done" \/ err # "none")
    /\ [](pc = "failed" <=> err # "none")
    /\ [](pc = "done" =>
            /\ i = N
            /\ Cardinality(Iterations) = N
            /\ \A k \in 1..Len(calls) : calls[k].raised = "none"
            /\ Cardinality(WritesOfThisRun) = 1
            /\ fs[wrote[Len(wrote)].path].content = WriteText(Get(story)))
    /\ [][ pc = "done" =>
             \/ calls' = calls /\ heap' = heap /\ wrote' = wrote /\ pc' = "done"
             \/ runs' = runs + 1 ]_vars

C18_Witness ==
    /\ pc = "done"
    /\ N = 2
    /\ i = 2
    /\ Cardinality(Iterations) = 2
    /\ Cardinality(WritesOfThisRun) = 1
    /\ fs # fs0

LastGenerateFailed == last.op = "generate" /\ last.raised # "none"

\* C19: a generate call that raises returns nothing and leaves the role as
\* it was, with save_to_memory or without: the role's fields and every
\* memory log are unchanged by the call, and a get_memory right after it
\* returns the log of before the call.
C19_FailureLeavesState ==
    /\ [](LastGenerateFailed =>
            /\ last.ret = None
            /\ last.result = last.before
            /\ heap[roles[last.role].memory] = last.before)
    /\ [][ (last'.op = "generate" /\ last'.raised # "none") =>
             /\ heap' = heap
             /\ roles' = roles
             /\ expect' = expect ]_vars
    /\ [][ (LastGenerateFailed /\ last'.op = "get_memory"
            /\ last'.role = last.role) => last'.result = last.before ]_vars

C19_Witness ==
    /\ LastGenerateFailed
    /\ last.save
    /\ Len(last.before) > 0
    /\ heap[roles[last.role].memory] = last.before

\* C20: the four roles of a run log into one logs/<timestamp> directory,
\* and no role of another run logs into that directory.
C20_FreshLogDirectory ==
    \A a \in 1..Len(logged) :
        /\ \A r1 \in RoleNames, r2 \in RoleNames : logged[a][r1] = logged[a][r2]
        /\ \A b \in 1..Len(logged) :
              a # b => \A r1 \in RoleNames, r2 \in RoleNames :
                          logged[a][r1] # logged[b][r2]
====
